---- MODULE Spec2Model ----
(***************************************************************************)
(* State-machine model of the audioheaven server: the chunked-upload       *)
(* session manager (services/upload.ts), the stored-file lookup            *)
(* (services/audio.ts), the background job scheduler with its event        *)
(* fan-out (services/jobs.ts) and the server-sent-event progress route     *)
(* (routes/audio.ts).                                                      *)
(*                                                                         *)
(* Conventions.  Identifiers produced by generateId / generateUploadId     *)
(* (`${Date.now()}-${random}`) are modelled as fresh naturals drawn from   *)
(* the counter nextId.  A file name is the sequence of its dot-separated   *)
(* segments ("song.mp3" is <<"song","mp3">>, "demo." is <<"demo","">>).    *)
(* A file of the uploads directory is named by the pair <<id, ext>>        *)
(* ("<id>.<ext>").  An optional field is a sequence of length 0 or 1.      *)
(* JavaScript runs every handler to completion up to its next await, so    *)
(* one action is one such run together with the microtasks it triggers.    *)
(***************************************************************************)
EXTENDS Integers, Sequences, FiniteSets, TLC

\* ---------------------------------------------------------------- bounds
MaxChunks         == 2  \* largest totalChunks a modelled upload asks for
MaxUploadRequests == 4  \* requests handled in a behaviour of UploadSpec
MaxJobRequests    == 3  \* requests handled in a behaviour of JobSpec
MaxSessionRequests == 4 \* requests handled in a behaviour of SessionSpec
MaxFanOutRequests == 4  \* requests handled in a behaviour of FanOutSpec
MaxStreamRequests == 4  \* requests handled in a behaviour of StreamSpec
MaxStoreRequests  == 4  \* requests handled in a behaviour of StoreSpec
MaxSweepRequests  == 3  \* requests handled in a behaviour of SweepSpec
MaxReapRequests   == 3  \* requests handled in a behaviour of ReapSpec
MaxRaceRequests   == 4  \* requests handled in a behaviour of RaceSpec
MaxAdvances       == 2  \* steps of the clock in a behaviour
MaxSweeps         == 2  \* runs of the sweep in a behaviour

\* ------------------------------------------------------ program constants
CHUNK_SIZE    == 5 * 1024 * 1024
MAX_FILE_SIZE == 104857600
PAD_WIDTH     == 6
MAX_AGE_MS          == 15 * 60 * 1000
CLEANUP_INTERVAL_MS == 60 * 1000

\* ------------------------------------------------------------ input sets
FileNames    == { <<"song", "mp3">>, <<"take", "json">>, <<"demo", "">> }
FileSizes    == { (k - 1) * CHUNK_SIZE + 1 : k \in 1..MaxChunks }
                  \cup { k * CHUNK_SIZE : k \in 1..MaxChunks }
                  \cup { MAX_FILE_SIZE, MAX_FILE_SIZE + 1 }
ChunkIndices == (0 - 1)..MaxChunks
Payloads     == { "A", "B" }
Presets      == { "nightcore" }
ExitCodes    == { 0, 1 }
\* the clock moves by a millisecond or by a whole retention window, which
\* puts an age just below, at and just above the window
TimeSteps    == { 1, MAX_AGE_MS }

VARIABLES
  nextId,         \* ghost: the next fresh identifier
  requests,       \* ghost: the number of client requests handled so far
  activeUploads,  \* upload.ts activeUploads: uploadId -> session record
  tempDirs,       \* file system: uploadId -> (chunk file name -> payload)
  sentLog,        \* ghost: uploadId -> (chunk index -> last payload sent),
                  \*        kept as long as the session
  uploadDir,      \* file system: <<id, ext>> -> content of uploads/<id>.<ext>
  uploadedFiles,  \* audio.ts uploadedFiles: fileId -> [path, name]
  processedFiles, \* audio.ts processedFiles: downloadId -> [path, name]
  jobs,           \* jobs.ts jobs: the job ids held by the registry
  job,            \* the Job objects: jobId -> record
  task,           \* processInBackground's locals: jobId -> record
  child,          \* the ffmpeg child process of a job: jobId -> record
  streams,        \* the progress streams: streamId -> record
  published,      \* ghost: jobId -> sequence of events handed to emitEvent
  statusLog,      \* ghost: jobId -> sequence of values assigned to status
  finalized,      \* ghost: the results successful finalize calls returned
  ended,          \* ghost: uploadId -> how the session ended
  stored,         \* ghost: what successful storeUpload calls were given
  now,            \* Date.now(), in milliseconds since the server started
  idTime,         \* the Date.now() prefix of the job ids: jobId -> time
  mtime,          \* file system: modification times of the entries of the
                  \*   uploads directory, [temp |-> uploadId -> time,
                  \*   file |-> <<id, ext>> -> time]
  outputDir,      \* file system: output path -> modification time
  cleanup,        \* cleanup.ts: [timer |-> cleanupTimer is set,
                  \*   sweeps |-> ghost, the runCleanup calls so far,
                  \*   last |-> ghost, the time of the latest one,
                  \*   advances |-> ghost, the steps the clock has made]
  calls,          \* upload.ts: the uploadChunk and finalizeUpload calls that
                  \*   are run one await at a time, in the order they began:
                  \*   their locals, the await they stand at, their outcome
  detached,       \* upload.ts: the session objects deleted from
                  \*   activeUploads that a call may still hold: uploadId ->
                  \*   record
  resp            \* outcome of the last request handler

uploadVars == <<activeUploads, tempDirs, sentLog, uploadDir, finalized, ended,
                stored, mtime>>
jobVars    == <<processedFiles, jobs, job, task, child, published, statusLog,
                idTime, outputDir>>
clockVars  == <<now, cleanup>>
raceVars   == <<calls, detached>>
vars       == <<nextId, requests, activeUploads, tempDirs, sentLog, uploadDir,
                uploadedFiles, processedFiles, jobs, job, task, child,
                streams, published, statusLog, finalized, ended, stored, now,
                idTime, mtime, outputDir, cleanup, calls, detached, resp>>

\* --------------------------------------------------------- map helpers
EmptyMap     == [x \in {} |-> 0]
Put(f, k, v) == [x \in (DOMAIN f) \cup {k} |-> IF x = k THEN v ELSE f[x]]
Remove(f, k) == [x \in (DOMAIN f) \ {k} |-> f[x]]
Has(f, k)    == k \in DOMAIN f

\* ------------------------------------------------- strings of characters
\* UTF-16 code units of the characters a chunk file name can contain.
CharCode(c) ==
  CASE c = "-" -> 45 [] c = "0" -> 48 [] c = "1" -> 49 [] c = "2" -> 50
    [] c = "3" -> 51 [] c = "4" -> 52 [] c = "5" -> 53 [] c = "6" -> 54
    [] c = "7" -> 55 [] c = "8" -> 56 [] c = "9" -> 57

DigitChar(d) == <<"0", "1", "2", "3", "4", "5", "6", "7", "8", "9">>[d + 1]

RECURSIVE NatToString(_)
NatToString(n) ==
  IF n < 10 THEN <<DigitChar(n)>>
  ELSE NatToString(n \div 10) \o <<DigitChar(n % 10)>>

\* Number.prototype.toString for an integer
NumToString(n) == IF n < 0 THEN <<"-">> \o NatToString(0 - n) ELSE NatToString(n)

\* String.prototype.padStart(width, "0")
PadStart(s, width) ==
  IF Len(s) >= width THEN s
  ELSE [i \in 1..(width - Len(s)) |-> "0"] \o s

\* the part of `chunk-${chunkIndex.toString().padStart(6, "0")}` after "chunk-"
ChunkFileName(chunkIndex) == PadStart(NumToString(chunkIndex), PAD_WIDTH)

\* a < b in the code-unit order Array.prototype.sort uses by default
RECURSIVE StrLess(_, _)
StrLess(a, b) ==
  IF a = <<>> THEN b # <<>>
  ELSE IF b = <<>> THEN FALSE
  ELSE IF CharCode(Head(a)) # CharCode(Head(b))
       THEN CharCode(Head(a)) < CharCode(Head(b))
       ELSE StrLess(Tail(a), Tail(b))

\* chunks.sort(): the names of a directory listing in ascending order
RECURSIVE SortNames(_)
SortNames(names) ==
  IF names = {} THEN <<>>
  ELSE LET least == CHOOSE n \in names : \A m \in names \ {n} : StrLess(n, m)
       IN  <<least>> \o SortNames(names \ {least})

\* upload.fileName.split(".").pop() || "mp3"
Ext(fileName) ==
  LET last == fileName[Len(fileName)] IN IF last = "" THEN "mp3" ELSE last

\* Math.ceil(fileSize / CHUNK_SIZE) for a positive fileSize
TotalChunksTruncated(fileSize) == fileSize \div CHUNK_SIZE + 1
TotalChunks(fileSize) == (fileSize + CHUNK_SIZE - 1) \div CHUNK_SIZE

\* ------------------------------------------------------ uploads directory
DataFile(bytes) == [kind |-> "data", bytes |-> bytes]
MetaFile(name)  == [kind |-> "meta", name |-> name]

\* getUpload: the values the lookup can return; <<>> stands for undefined.
\* The cache is consulted first; otherwise the sidecar <id>.json is parsed
\* and the directory searched for an entry that starts with the id and
\* does not end in ".json".
GetUploadGuessing(fileId) ==
  IF Has(uploadedFiles, fileId) THEN { <<uploadedFiles[fileId]>> }
  ELSE { <<[path |-> <<fileId, "mp3">>, name |-> <<"song", "mp3">>]>> }
GetUpload(fileId) ==
  IF Has(uploadedFiles, fileId) THEN { <<uploadedFiles[fileId]>> }
  ELSE IF Has(uploadDir, <<fileId, "json">>)
          /\ uploadDir[<<fileId, "json">>].kind = "meta"
       THEN LET meta  == uploadDir[<<fileId, "json">>]
                found == { f \in DOMAIN uploadDir :
                             f[1] = fileId /\ f[2] # "json" }
            IN  IF found = {} THEN { <<>> }
                ELSE { <<[path |-> f, name |-> meta.name]>> : f \in found }
       ELSE { <<>> }

\* ================================================================= Init
Init ==
  /\ nextId = 1
  /\ requests = 0
  /\ activeUploads = EmptyMap
  /\ tempDirs = EmptyMap
  /\ sentLog = EmptyMap
  /\ uploadDir = EmptyMap
  /\ uploadedFiles = EmptyMap
  /\ processedFiles = EmptyMap
  /\ jobs = {}
  /\ job = EmptyMap
  /\ task = EmptyMap
  /\ child = EmptyMap
  /\ streams = EmptyMap
  /\ published = EmptyMap
  /\ statusLog = EmptyMap
  /\ finalized = {}
  /\ ended = EmptyMap
  /\ stored = {}
  /\ now = 0
  /\ idTime = EmptyMap
  /\ mtime = [temp |-> EmptyMap, file |-> EmptyMap]
  /\ outputDir = EmptyMap
  /\ cleanup = [timer |-> FALSE, sweeps |-> 0, last |-> 0, advances |-> 0]
  /\ calls = <<>>
  /\ detached = EmptyMap
  /\ resp = [op |-> "none", ok |-> TRUE]

\* ======================================================= upload sessions
\* the error an unknown uploadId raises ("Upload session not found or expired")
SessionNotFoundAsIncomplete == "IncompleteUpload"
SessionNotFound == "SessionNotFound"

\* the guard `fileSize > MAX_FILE_SIZE`
TooLargeInclusive(fileSize) == fileSize >= MAX_FILE_SIZE
TooLarge(fileSize) == fileSize > MAX_FILE_SIZE

\* POST /api/audio/upload/init -> initChunkedUpload
InitChunkedUpload(fileName, fileSize) ==
  /\ requests' = requests + 1
  /\ IF TooLarge(fileSize)
     THEN /\ resp' = [op |-> "init", ok |-> FALSE, error |-> "PayloadTooLarge",
                      fileSize |-> fileSize]
          /\ UNCHANGED <<nextId, activeUploads, tempDirs, sentLog, mtime>>
     ELSE LET uploadId == nextId
              totalChunks == TotalChunks(fileSize)
          IN  /\ nextId' = nextId + 1
              /\ tempDirs' = Put(tempDirs, uploadId, EmptyMap)
              /\ mtime' = [mtime EXCEPT !.temp = Put(@, uploadId, now)]
              /\ activeUploads' = Put(activeUploads, uploadId,
                     [fileName |-> fileName, totalChunks |-> totalChunks,
                      receivedChunks |-> {}, createdAt |-> now])
              /\ sentLog' = Put(sentLog, uploadId, EmptyMap)
              /\ resp' = [op |-> "init", ok |-> TRUE, uploadId |-> uploadId,
                          chunkSize |-> CHUNK_SIZE,
                          totalChunks |-> totalChunks, fileSize |-> fileSize]
  /\ UNCHANGED <<uploadDir, finalized, ended, stored, uploadedFiles, streams>>
  /\ UNCHANGED jobVars
  /\ UNCHANGED clockVars
  /\ UNCHANGED raceVars

\* writeFile(chunkPath, data): creates the file or replaces its content
WriteFileExclusive(dir, name, data) ==
  IF Has(dir, name) THEN dir ELSE Put(dir, name, data)
WriteFile(dir, name, data) == Put(dir, name, data)

\* received === upload.totalChunks
CompleteAtLeast(received, total) == received >= total
Complete(received, total) == received = total

\* POST /api/audio/upload/chunk -> uploadChunk
UploadChunk(uploadId, chunkIndex, chunkData) ==
  /\ requests' = requests + 1
  /\ IF ~Has(activeUploads, uploadId)
     THEN /\ resp' = [op |-> "chunk", ok |-> FALSE, error |-> SessionNotFound,
                      uploadId |-> uploadId]
          /\ UNCHANGED <<activeUploads, tempDirs, sentLog, mtime>>
     ELSE IF ~Has(tempDirs, uploadId)
     THEN /\ resp' = [op |-> "chunk", ok |-> FALSE, error |-> "WriteFailed",
                      uploadId |-> uploadId]
          /\ UNCHANGED <<activeUploads, tempDirs, sentLog, mtime>>
     ELSE LET upload   == activeUploads[uploadId]
              received == upload.receivedChunks \cup {chunkIndex}
          IN  /\ tempDirs' = [tempDirs EXCEPT ![uploadId] =
                     WriteFile(@, ChunkFileName(chunkIndex), chunkData)]
              /\ mtime' = IF Has(tempDirs[uploadId], ChunkFileName(chunkIndex))
                          THEN mtime
                          ELSE [mtime EXCEPT !.temp[uploadId] = now]
              /\ activeUploads' = [activeUploads EXCEPT
                     ![uploadId].receivedChunks = received]
              /\ sentLog' = [sentLog EXCEPT ![uploadId] =
                     Put(@, chunkIndex, chunkData)]
              /\ resp' = [op |-> "chunk", ok |-> TRUE,
                          received |-> Cardinality(received),
                          total |-> upload.totalChunks,
                          complete |-> Complete(Cardinality(received),
                                                upload.totalChunks),
                          uploadId |-> uploadId,
                          resent |-> chunkIndex \in upload.receivedChunks]
  /\ UNCHANGED <<nextId, uploadDir, finalized, ended, stored, uploadedFiles,
                 streams>>
  /\ UNCHANGED jobVars
  /\ UNCHANGED clockVars
  /\ UNCHANGED raceVars

\* the bytes finalizeUpload appends to the final file: the chunk files of
\* the listing, read in the listing's sorted order
Concatenate(dir) ==
  LET chunks == SortNames(DOMAIN dir)
  IN  [i \in 1..Len(chunks) |-> dir[chunks[i]]]

\* rm(upload.tempDir) and activeUploads.delete(uploadId) at the end of
\* finalizeUpload, applied to the directory map and to the session map
FinalizeCleanupSkipped(entries, uploadId) == entries
FinalizeCleanup(entries, uploadId) == Remove(entries, uploadId)

\* POST /api/audio/upload/finalize -> finalizeUpload
\* finalizeUpload's test for a session that still lacks chunks
MissingChunksNever(received, total) == FALSE
MissingChunks(received, total) == received # total

FinalizeUpload(uploadId) ==
  /\ requests' = requests + 1
  /\ IF ~Has(activeUploads, uploadId)
     THEN /\ resp' = [op |-> "finalize", ok |-> FALSE, error |-> SessionNotFound,
                      uploadId |-> uploadId]
          /\ UNCHANGED <<nextId, activeUploads, tempDirs, sentLog, uploadDir,
                         finalized, ended, mtime>>
     ELSE IF MissingChunks(Cardinality(activeUploads[uploadId].receivedChunks),
                           activeUploads[uploadId].totalChunks)
     THEN /\ resp' = [op |-> "finalize", ok |-> FALSE, error |-> "IncompleteUpload",
                      uploadId |-> uploadId,
                      total |-> activeUploads[uploadId].totalChunks,
                      received |-> activeUploads[uploadId].receivedChunks]
          /\ UNCHANGED <<nextId, activeUploads, tempDirs, sentLog, uploadDir,
                         finalized, ended, mtime>>
     ELSE IF ~Has(tempDirs, uploadId)
     THEN /\ resp' = [op |-> "finalize", ok |-> FALSE, error |-> "ReadFailed",
                      uploadId |-> uploadId]
          /\ UNCHANGED <<nextId, activeUploads, tempDirs, sentLog, uploadDir,
                         finalized, ended, mtime>>
     ELSE LET upload    == activeUploads[uploadId]
              ext       == Ext(upload.fileName)
              fileId    == nextId
              finalPath == <<fileId, ext>>
              withData  == Put(uploadDir, finalPath,
                               DataFile(Concatenate(tempDirs[uploadId])))
              withMeta  == Put(withData, <<fileId, "json">>,
                               MetaFile(upload.fileName))
              result    == [fileId |-> fileId, fileName |-> upload.fileName,
                            filePath |-> finalPath, uploadId |-> uploadId,
                            bytes |-> Concatenate(tempDirs[uploadId])]
          IN  /\ nextId' = nextId + 1
              /\ uploadDir' = withMeta
              /\ tempDirs' = FinalizeCleanup(tempDirs, uploadId)
              /\ mtime' = [temp |-> FinalizeCleanup(mtime.temp, uploadId),
                           file |-> Put(Put(mtime.file, finalPath, now),
                                        <<fileId, "json">>, now)]
              /\ activeUploads' = FinalizeCleanup(activeUploads, uploadId)
              /\ sentLog' = Remove(sentLog, uploadId)
              /\ finalized' = finalized \cup {result}
              /\ ended' = Put(ended, uploadId, "finalized")
              /\ resp' = [op |-> "finalize", ok |-> TRUE,
                          fileId |-> fileId, fileName |-> upload.fileName,
                          filePath |-> finalPath, uploadId |-> uploadId,
                          total |-> upload.totalChunks,
                          received |-> upload.receivedChunks,
                          sent |-> sentLog[uploadId]]
  /\ UNCHANGED <<stored, uploadedFiles, streams>>
  /\ UNCHANGED jobVars
  /\ UNCHANGED clockVars
  /\ UNCHANGED raceVars

\* rm(upload.tempDir) and activeUploads.delete(uploadId) in cancelUpload,
\* applied to the directory map and to the session map
CancelCleanupSkipped(entries, uploadId) == entries
CancelCleanup(entries, uploadId) == Remove(entries, uploadId)

\* POST /api/audio/upload/cancel -> cancelUpload
CancelUpload(uploadId) ==
  /\ requests' = requests + 1
  /\ IF Has(activeUploads, uploadId)
     THEN /\ tempDirs' = CancelCleanup(tempDirs, uploadId)
          /\ activeUploads' = CancelCleanup(activeUploads, uploadId)
          /\ sentLog' = Remove(sentLog, uploadId)
          /\ ended' = Put(ended, uploadId, "cancelled")
          /\ mtime' = [mtime EXCEPT !.temp = CancelCleanup(@, uploadId)]
     ELSE UNCHANGED <<activeUploads, tempDirs, sentLog, ended, mtime>>
  /\ resp' = [op |-> "cancel", ok |-> TRUE, uploadId |-> uploadId,
              existed |-> Has(activeUploads, uploadId)]
  /\ UNCHANGED <<nextId, uploadDir, finalized, stored, uploadedFiles, streams>>
  /\ UNCHANGED jobVars
  /\ UNCHANGED clockVars
  /\ UNCHANGED raceVars

\* GET /api/audio/upload/status/:id -> getUploadStatus, a read of the
\* session map
GetUploadStatus(uploadId) ==
  IF ~Has(activeUploads, uploadId) THEN [exists |-> FALSE]
  ELSE LET upload == activeUploads[uploadId]
       IN  [exists |-> TRUE,
            received |-> Cardinality(upload.receivedChunks),
            total |-> upload.totalChunks,
            complete |-> Complete(Cardinality(upload.receivedChunks),
                                  upload.totalChunks)]

\* ===================================================== single-shot upload
\* POST /api/audio/upload -> storeUpload
StoreUpload(fileName, data) ==
  /\ requests' = requests + 1
  /\ LET fileId   == nextId
         filePath == <<fileId, Ext(fileName)>>
         withData == Put(uploadDir, filePath, DataFile(<<data>>))
         withMeta == Put(withData, <<fileId, "json">>, MetaFile(fileName))
     IN  /\ nextId' = nextId + 1
         /\ uploadDir' = withMeta
         /\ mtime' = [mtime EXCEPT !.file = Put(Put(@, filePath, now),
                                                <<fileId, "json">>, now)]
         /\ uploadedFiles' = Put(uploadedFiles, fileId,
                                 [path |-> filePath, name |-> fileName])
         /\ stored' = stored \cup { [fileId |-> fileId, fileName |-> fileName,
                                      filePath |-> filePath,
                                      bytes |-> <<data>>] }
         /\ resp' = [op |-> "upload", ok |-> TRUE, fileId |-> fileId,
                     fileName |-> fileName]
  /\ UNCHANGED <<activeUploads, tempDirs, sentLog, finalized, ended, streams>>
  /\ UNCHANGED jobVars
  /\ UNCHANGED clockVars
  /\ UNCHANGED raceVars

\* ======================================================== progress parser
Durations == { <<0, 0, 0, 0>>, <<0, 0, 10, 0>> }
Positions == { <<0, 0, 5, 0>>, <<0, 0, 9, 96>> }
Optional(S) == { <<>> } \cup { <<x>> : x \in S }

\* hours * 3600 + mins * 60 + secs + centis / 100, in hundredths of a second
ParseClock(m) == (m[1] * 3600 + m[2] * 60 + m[3]) * 100 + m[4]

Min(a, b) == IF a < b THEN a ELSE b

\* Math.min(99, Math.round((currentSec / duration) * 100))
ProgressOfUncapped(current, duration) ==
  (200 * current + duration) \div (2 * duration)
ProgressOf(current, duration) ==
  Min(99, (200 * current + duration) \div (2 * duration))

\* the guard `progress > lastProgress` of the stderr handler
ShouldReportLoose(progress, lastProgress) == progress >= lastProgress
ShouldReport(progress, lastProgress) == progress > lastProgress

\* ============================================================ event fan-out
IsTerminal(event) == event.type \in {"complete", "error"}

\* controller.enqueue throws when the controller no longer accepts data
Throws(s) == s.closed

\* the callback the progress route registers: sendEvent, then on a terminal
\* event arm the 100 ms close timer; enqueue on a closed controller throws
Callback(s, event) ==
  IF Throws(s) THEN s
  ELSE [s EXCEPT !.received = Append(@, event),
                 !.timers = IF IsTerminal(event) THEN @ + 1 ELSE @]

\* the callbacks one emitEvent call runs: the loop visits job.subscribers in
\* insertion order (ascending stream number) and its try/catch lets it go
\* on after a callback threw
CalledUntilThrow(strs, subscribers) ==
  { c \in subscribers : \A d \in subscribers : d < c => ~Throws(strs[d]) }
Called(strs, subscribers) == subscribers

\* emitEvent: every callback of job.subscribers is called with the event
EmitEvent(strs, subscribers, event) ==
  [c \in DOMAIN strs |->
     IF c \in Called(strs, subscribers)
     THEN Callback(strs[c], event) ELSE strs[c]]

\* ghost: what the publication log keeps of one emitEvent call: the event,
\* the subscribers registered at that moment and those whose callback threw
Publication(event, files, strs, subscribers) ==
  [event |-> event,
   subscribers |-> subscribers,
   failed |-> { c \in subscribers : Throws(strs[c]) },
   registered |-> IF event.type = "complete"
                  THEN /\ Has(files, event.result.downloadId)
                       /\ files[event.result.downloadId].name
                            = event.result.fileName
                  ELSE TRUE]

\* ================================================================== jobs
\* upload.name.replace(/\.[^.]+$/, "")
BaseName(name) ==
  IF Len(name) >= 2 /\ name[Len(name)] # ""
  THEN SubSeq(name, 1, Len(name) - 1) ELSE name

\* `${baseName}_${options.preset}.mp3`
OutputName(name, preset) == [base |-> BaseName(name), preset |-> preset]

\* join(outputDir, `${outputName.replace(/\.mp3$/, "")}-${downloadId}.mp3`)
OutputPath(name, preset, downloadId) == <<OutputName(name, preset), downloadId>>

\* processAudio: const upload = uploadedFiles.get(fileId), the registry only
ProcessAudioUpload(fileId) ==
  IF Has(uploadedFiles, fileId) THEN <<uploadedFiles[fileId]>> ELSE <<>>

\* processAudio: `${baseName}_${options.preset}.mp3`
ProcessAudioOutputName(name, preset) ==
  [base |-> BaseName(name), preset |-> preset]

\* processAudio: join(tempDir, `processed-${downloadId}.mp3`)
ProcessAudioOutputPath(downloadId) == <<"processed", downloadId>>

\* setProcessedFile
SetProcessedFileDropped(files, downloadId, path, name) == files
SetProcessedFile(files, downloadId, path, name) ==
  Put(files, downloadId, [path |-> path, name |-> name])

\* resolve / reject act on a promise only while it is pending
CanSettleAlways(t) == TRUE
CanSettle(t) == ~t.settled

\* the status the catch block of processInBackground assigns
FailureStatusReset == "pending"
FailureStatus == "error"

\* POST /api/audio/process -> startJob, with the synchronous head of
\* processInBackground (up to `await ensureOutputDir()`)
StartJob(fileId, preset) ==
  /\ requests' = requests + 1
  /\ \E found \in GetUpload(fileId) :
       IF found = <<>>
       THEN /\ resp' = [op |-> "process", ok |-> FALSE, fileId |-> fileId,
                        error |-> "UploadNotFound"]
            /\ UNCHANGED <<nextId, uploadedFiles, jobs, job, task, published,
                           statusLog, idTime>>
       ELSE LET upload     == found[1]
                jobId      == nextId
                downloadId == nextId + 1
                event      == [type |-> "progress", progress |-> 0]
            IN  /\ nextId' = nextId + 2
                /\ uploadedFiles' = Put(uploadedFiles, fileId, upload)
                /\ jobs' = jobs \cup {jobId}
                /\ idTime' = Put(idTime, jobId, now)
                /\ job' = Put(job, jobId,
                       [id |-> jobId, fileId |-> fileId,
                        status |-> "processing", progress |-> 0,
                        error |-> <<>>, result |-> <<>>,
                        subscribers |-> {}, process |-> FALSE])
                /\ task' = Put(task, jobId,
                       [pc |-> "mkdir", upload |-> upload, preset |-> preset,
                        downloadId |-> downloadId, duration |-> 0,
                        lastProgress |-> 0, settled |-> FALSE])
                /\ statusLog' = Put(statusLog, jobId, <<"pending", "processing">>)
                /\ published' = Put(published, jobId,
                       <<Publication(event, processedFiles, streams, {})>>)
                /\ resp' = [op |-> "process", ok |-> TRUE, fileId |-> fileId,
                            jobId |-> jobId, upload |-> upload]
  /\ UNCHANGED <<processedFiles, child, streams, outputDir>>
  /\ UNCHANGED uploadVars
  /\ UNCHANGED clockVars
  /\ UNCHANGED raceVars

\* the try block after the awaited promise resolved (lines 151-156); ffmpeg
\* exited with code 0, so the output file it was given to write exists
Succeed(j) ==
  LET t          == task[j]
      outputName == OutputName(t.upload.name, t.preset)
      outputPath == OutputPath(t.upload.name, t.preset, t.downloadId)
      files      == SetProcessedFile(processedFiles, t.downloadId,
                                     outputPath, outputName)
      result     == [downloadId |-> t.downloadId, fileName |-> outputName]
      event      == [type |-> "complete", result |-> result]
  IN  /\ processedFiles' = files
      /\ outputDir' = Put(outputDir, outputPath, now)
      /\ job' = [job EXCEPT ![j].status = "complete", ![j].progress = 100,
                            ![j].result = <<result>>]
      /\ statusLog' = [statusLog EXCEPT ![j] = Append(@, "complete")]
      /\ streams' = EmitEvent(streams, job[j].subscribers, event)
      /\ published' = [published EXCEPT ![j] =
                         Append(@, Publication(event, files, streams,
                                               job[j].subscribers))]

\* the event the catch block emits
FailureEventAsProgress(message) == [type |-> "progress", progress |-> 0]
FailureEvent(message) == [type |-> "error", error |-> message]

\* the catch block (lines 157-161)
Fail(j, message) ==
  LET event == FailureEvent(message)
  IN  /\ job' = [job EXCEPT ![j].status = FailureStatus,
                            ![j].error = <<message>>]
      /\ statusLog' = [statusLog EXCEPT ![j] = Append(@, FailureStatus)]
      /\ streams' = EmitEvent(streams, job[j].subscribers, event)
      /\ published' = [published EXCEPT ![j] =
                         Append(@, Publication(event, processedFiles, streams,
                                               job[j].subscribers))]
      /\ UNCHANGED <<processedFiles, outputDir>>

\* ensureOutputDir resolved: names and arguments are derived, ffmpeg is
\* spawned, the handle stored and the three handlers registered
SpawnFFmpeg(j) ==
  /\ Has(task, j) /\ task[j].pc = "mkdir"
  /\ task' = [task EXCEPT ![j].pc = "running"]
  /\ job' = [job EXCEPT ![j].process = TRUE]
  /\ child' = Put(child, j, [closed |-> FALSE, errored |-> FALSE])
  /\ UNCHANGED <<nextId, requests, uploadedFiles, processedFiles, jobs, streams,
                 published, statusLog, resp>>
  /\ UNCHANGED uploadVars
  /\ UNCHANGED <<idTime, outputDir>>
  /\ UNCHANGED clockVars
  /\ UNCHANGED raceVars

\* ensureOutputDir rejected: control passes to the catch block
OutputDirFails(j) ==
  /\ Has(task, j) /\ task[j].pc = "mkdir"
  /\ task' = [task EXCEPT ![j].pc = "done"]
  /\ Fail(j, <<"mkdir failed">>)
  /\ UNCHANGED <<nextId, requests, uploadedFiles, jobs, child, resp>>
  /\ UNCHANGED uploadVars
  /\ UNCHANGED idTime
  /\ UNCHANGED clockVars
  /\ UNCHANGED raceVars

\* ffmpeg.stderr.on("data"): one chunk of diagnostic output, in which the
\* Duration pattern and the time= pattern each match or not
StderrData(j, durationMatch, timeMatch) ==
  /\ Has(child, j) /\ ~child[j].closed
  /\ LET t        == task[j]
         duration == IF t.duration = 0 /\ durationMatch # <<>>
                     THEN ParseClock(durationMatch[1]) ELSE t.duration
         reports  == /\ timeMatch # <<>>
                     /\ duration > 0
                     /\ ShouldReport(ProgressOf(ParseClock(timeMatch[1]), duration),
                                     t.lastProgress)
     IN  IF reports
         THEN LET progress == ProgressOf(ParseClock(timeMatch[1]), duration)
                  event    == [type |-> "progress", progress |-> progress]
              IN  /\ task' = [task EXCEPT ![j].duration = duration,
                                          ![j].lastProgress = progress]
                  /\ job' = [job EXCEPT ![j].progress = progress]
                  /\ streams' = EmitEvent(streams, job[j].subscribers, event)
                  /\ published' = [published EXCEPT ![j] =
                         Append(@, Publication(event, processedFiles, streams,
                                               job[j].subscribers))]
         ELSE /\ task' = [task EXCEPT ![j].duration = duration]
              /\ UNCHANGED <<job, streams, published>>
  /\ UNCHANGED <<nextId, requests, uploadedFiles, processedFiles, jobs, child,
                 statusLog, resp>>
  /\ UNCHANGED uploadVars
  /\ UNCHANGED <<idTime, outputDir>>
  /\ UNCHANGED clockVars
  /\ UNCHANGED raceVars

\* ffmpeg.on("close"): resolve on code 0, reject otherwise; the awaiting
\* function resumes in the same turn when this call settled the promise
ChildClose(j, code) ==
  /\ Has(child, j) /\ ~child[j].closed
  /\ child' = [child EXCEPT ![j].closed = TRUE]
  /\ IF CanSettle(task[j])
     THEN /\ task' = [task EXCEPT ![j].settled = TRUE, ![j].pc = "done"]
          /\ IF code = 0 THEN Succeed(j)
             ELSE Fail(j, <<"FFmpeg failed with code", code>>)
     ELSE UNCHANGED <<task, job, streams, published, statusLog, processedFiles,
                      outputDir>>
  /\ UNCHANGED <<nextId, requests, uploadedFiles, jobs, idTime, resp>>
  /\ UNCHANGED uploadVars
  /\ UNCHANGED clockVars
  /\ UNCHANGED raceVars

\* ffmpeg.on("error"): reject
ChildError(j) ==
  /\ Has(child, j) /\ ~child[j].errored
  /\ child' = [child EXCEPT ![j].errored = TRUE]
  /\ IF CanSettle(task[j])
     THEN /\ task' = [task EXCEPT ![j].settled = TRUE, ![j].pc = "done"]
          /\ Fail(j, <<"FFmpeg error", "spawn">>)
     ELSE UNCHANGED <<task, job, streams, published, statusLog, processedFiles,
                      outputDir>>
  /\ UNCHANGED <<nextId, requests, uploadedFiles, jobs, resp>>
  /\ UNCHANGED uploadVars
  /\ UNCHANGED idTime
  /\ UNCHANGED clockVars
  /\ UNCHANGED raceVars

\* ======================================================= progress streams
\* job.subscribers.add(callback)
SubscribeDropped(jobMap, j, c) == jobMap
Subscribe(jobMap, j, c) ==
  [jobMap EXCEPT ![j].subscribers = @ \cup {c}]

\* the unsubscribe closure subscribeToJob returns
UnsubscribeAll(jobMap, j, c) ==
  [jobMap EXCEPT ![j].subscribers = {}]
Unsubscribe(jobMap, j, c) ==
  [jobMap EXCEPT ![j].subscribers = @ \ {c}]

\* ghost: the length of the job's publication log when the stream's
\* unsubscribe closure was first called
Left(s) == IF s.left = <<>> THEN <<Len(published[s.job])>> ELSE s.left

\* GET /api/audio/process/progress/:jobId -> getJob, subscribeToJob
OpenStream(j) ==
  /\ requests' = requests + 1
  /\ IF j \notin jobs
     THEN /\ resp' = [op |-> "progress", ok |-> FALSE, jobId |-> j,
                      error |-> "JobNotFound"]
          /\ UNCHANGED <<streams, job>>
     ELSE LET c == Cardinality(DOMAIN streams) + 1
          IN  /\ streams' = Put(streams, c,
                     [job |-> j, closed |-> FALSE, aborted |-> FALSE,
                      timers |-> 0, closeErrors |-> 0, received |-> <<>>,
                      joined |-> Len(published[j]), left |-> <<>>])
              /\ job' = Subscribe(job, j, c)
              /\ resp' = [op |-> "progress", ok |-> TRUE, jobId |-> j,
                          stream |-> c]
  /\ UNCHANGED <<nextId, uploadedFiles, processedFiles, jobs, task, child,
                 published, statusLog>>
  /\ UNCHANGED uploadVars
  /\ UNCHANGED <<idTime, outputDir>>
  /\ UNCHANGED clockVars
  /\ UNCHANGED raceVars

\* controller.close(): throws on a controller that is already closed
CloseControllerLeftOpen(s) == s
CloseController(s) ==
  IF s.closed THEN [s EXCEPT !.closeErrors = @ + 1]
  ELSE [s EXCEPT !.closed = TRUE]

\* the setTimeout(..., 100) callback armed by a terminal event
CloseTimer(c) ==
  /\ Has(streams, c) /\ streams[c].timers > 0
  /\ job' = Unsubscribe(job, streams[c].job, c)
  /\ streams' = [streams EXCEPT
                   ![c] = CloseController([@ EXCEPT !.timers = @ - 1,
                                                    !.left = Left(streams[c])])]
  /\ UNCHANGED <<nextId, requests, uploadedFiles, processedFiles, jobs, task, child,
                 published, statusLog, resp>>
  /\ UNCHANGED uploadVars
  /\ UNCHANGED <<idTime, outputDir>>
  /\ UNCHANGED clockVars
  /\ UNCHANGED raceVars

\* req.signal "abort": the client went away while the stream was open
ClientAbort(c) ==
  /\ Has(streams, c) /\ ~streams[c].aborted /\ ~streams[c].closed
  /\ job' = Unsubscribe(job, streams[c].job, c)
  /\ streams' = [streams EXCEPT
                   ![c] = CloseController([@ EXCEPT !.aborted = TRUE,
                                                    !.left = Left(streams[c])])]
  /\ UNCHANGED <<nextId, requests, uploadedFiles, processedFiles, jobs, task, child,
                 published, statusLog, resp>>
  /\ UNCHANGED uploadVars
  /\ UNCHANGED <<idTime, outputDir>>
  /\ UNCHANGED clockVars
  /\ UNCHANGED raceVars

\* The consumer of the response body cancels the stream (the connection is
\* lost) and the abort listener has not run yet: the stream defines no
\* cancel(), so the controller stops accepting data while the callback is
\* still subscribed.
StreamCancel(c) ==
  /\ Has(streams, c) /\ ~streams[c].closed /\ ~streams[c].aborted
  /\ streams' = [streams EXCEPT ![c].closed = TRUE]
  /\ UNCHANGED <<nextId, requests, uploadedFiles, resp>>
  /\ UNCHANGED jobVars
  /\ UNCHANGED uploadVars
  /\ UNCHANGED clockVars
  /\ UNCHANGED raceVars

\* ================================================================= time
\* time passes; advances counts the steps of the clock
Advance(d) ==
  /\ cleanup.advances < MaxAdvances
  /\ now' = now + d
  /\ cleanup' = [cleanup EXCEPT !.advances = @ + 1]
  /\ UNCHANGED <<nextId, requests, uploadedFiles, streams, resp>>
  /\ UNCHANGED uploadVars
  /\ UNCHANGED jobVars
  /\ UNCHANGED raceVars

\* ============================================================== sweeper
\* the test `now - timestamp > maxAgeMs` of cleanupOldJobs
JobExpiredInclusive(timestamp, at, maxAgeMs) == at - timestamp >= maxAgeMs
JobExpired(timestamp, at, maxAgeMs) == at - timestamp > maxAgeMs

\* cleanupOldJobs: the ids the registry keeps
CleanupOldJobsAndDone(ids, at, maxAgeMs) ==
  { j \in ids : /\ ~JobExpired(idTime[j], at, maxAgeMs)
                /\ job[j].status = "processing" }
CleanupOldJobs(ids, at, maxAgeMs) ==
  { j \in ids : ~JobExpired(idTime[j], at, maxAgeMs) }

\* the test `now - stat.mtimeMs > maxAgeMs` of cleanupDirectory, the same
\* for a directory and for a file
Stale(mtimeMs, at, maxAgeMs) == at - mtimeMs > maxAgeMs

\* cleanupDirectory: the entries of a directory, given with their
\* modification times, that are left after the scan
CleanupDirectory(times, at, maxAgeMs) ==
  { e \in DOMAIN times : ~Stale(times[e], at, maxAgeMs) }

Restrict(f, keys) == [x \in (DOMAIN f) \cap keys |-> f[x]]

\* runCleanup: the uploads directory, the output directory, the job
\* registry.  The session registry and the two file registries are not among
\* the things it touches.
RunCleanup ==
  LET temps   == CleanupDirectory(mtime.temp, now, MAX_AGE_MS)
      files   == CleanupDirectory(mtime.file, now, MAX_AGE_MS)
      outputs == CleanupDirectory(outputDir, now, MAX_AGE_MS)
  IN  /\ tempDirs' = Restrict(tempDirs, temps)
      /\ uploadDir' = Restrict(uploadDir, files)
      /\ mtime' = [temp |-> Restrict(mtime.temp, temps),
                   file |-> Restrict(mtime.file, files)]
      /\ outputDir' = Restrict(outputDir, outputs)
      /\ jobs' = CleanupOldJobs(jobs, now, MAX_AGE_MS)
      /\ UNCHANGED <<nextId, requests, activeUploads, sentLog, uploadedFiles,
                     processedFiles, job, task, child, streams, published,
                     statusLog, finalized, ended, stored, now, idTime, resp>>
      /\ UNCHANGED raceVars

\* startCleanupJob: nothing when the timer is set; otherwise one sweep at
\* once and the interval timer
StartCleanupJob ==
  IF cleanup.timer THEN UNCHANGED vars
  ELSE /\ cleanup.sweeps < MaxSweeps
       /\ RunCleanup
       /\ cleanup' = [cleanup EXCEPT !.timer = TRUE, !.sweeps = @ + 1,
                                     !.last = now]

\* the setInterval callback: it is not called before CLEANUP_INTERVAL_MS
\* have passed since the previous call
CleanupTick ==
  /\ cleanup.timer
  /\ cleanup.sweeps < MaxSweeps
  /\ now >= cleanup.last + CLEANUP_INTERVAL_MS
  /\ RunCleanup
  /\ cleanup' = [cleanup EXCEPT !.sweeps = @ + 1, !.last = now]

\* GET /api/audio/download/:id -> getProcessedFile, then the file is read
Download(downloadId) ==
  IF ~Has(processedFiles, downloadId) THEN "FileNotFound"
  ELSE IF ~Has(outputDir, processedFiles[downloadId].path) THEN "ReadFailed"
  ELSE "ok"

\* ============================================ uploads, one await at a time
\* uploadChunk and finalizeUpload are async functions: each runs to its next
\* await, and other handlers run before it resumes.  A call is a record of
\* its locals and of the await it stands at (pc); a call that returned or
\* threw has pc "done" and keeps its outcome.
Call(op, uploadId) ==
  [op |-> op, uploadId |-> uploadId, pc |-> "done", ok |-> FALSE,
   error |-> "", index |-> 0, data |-> "", pending |-> FALSE,
   fileId |-> 0, ext |-> "", fileName |-> <<>>, chunks |-> <<>>,
   received |-> 0, total |-> 0, complete |-> FALSE, bytes |-> <<>>]

\* the session object a call holds: the one in the map, or the one that
\* was deleted from it
UploadObject(uploadId) ==
  IF Has(activeUploads, uploadId) THEN activeUploads[uploadId]
  ELSE detached[uploadId]

\* what a file opened for writing holds before its data is written
Truncated == ""

\* uploadChunk up to `await writeFile(chunkPath, ...)`
UploadChunkBegin(uploadId, chunkIndex, chunkData) ==
  /\ requests' = requests + 1
  /\ calls' = Append(calls,
       IF ~Has(activeUploads, uploadId)
       THEN [Call("chunk", uploadId) EXCEPT !.error = SessionNotFound,
                                            !.index = chunkIndex,
                                            !.data = chunkData]
       ELSE [Call("chunk", uploadId) EXCEPT
               !.pc = "open", !.index = chunkIndex, !.data = chunkData,
               !.total = activeUploads[uploadId].totalChunks,
               !.pending = ~Complete(
                   Cardinality(activeUploads[uploadId].receivedChunks),
                   activeUploads[uploadId].totalChunks)])
  /\ UNCHANGED <<nextId, uploadedFiles, streams, detached, resp>>
  /\ UNCHANGED uploadVars
  /\ UNCHANGED jobVars
  /\ UNCHANGED clockVars

\* writeFile opens the chunk file: it is created, or emptied when it exists;
\* without the session's directory the write fails and uploadChunk throws
WriteFileOpen(c) ==
  LET call == calls[c]
      name == ChunkFileName(call.index)
  IN  /\ call.pc = "open"
      /\ IF ~Has(tempDirs, call.uploadId)
         THEN /\ calls' = [calls EXCEPT ![c].pc = "done",
                                        ![c].error = "WriteFailed"]
              /\ UNCHANGED <<tempDirs, mtime>>
         ELSE /\ calls' = [calls EXCEPT ![c].pc = "write"]
              /\ tempDirs' = [tempDirs EXCEPT ![call.uploadId] =
                                WriteFile(@, name, Truncated)]
              /\ mtime' = IF Has(tempDirs[call.uploadId], name) THEN mtime
                          ELSE [mtime EXCEPT !.temp[call.uploadId] = now]
      /\ UNCHANGED <<nextId, requests, activeUploads, sentLog, uploadDir,
                     finalized, ended, stored, uploadedFiles, streams,
                     detached, resp>>
      /\ UNCHANGED jobVars
      /\ UNCHANGED clockVars

\* writeFile writes the data and resolves; a file whose directory was
\* removed meanwhile is no longer visible
WriteFileDone(c) ==
  LET call == calls[c]
      name == ChunkFileName(call.index)
  IN  /\ call.pc = "write"
      /\ calls' = [calls EXCEPT ![c].pc = "written"]
      /\ tempDirs' = IF Has(tempDirs, call.uploadId)
                        /\ Has(tempDirs[call.uploadId], name)
                     THEN [tempDirs EXCEPT ![call.uploadId] =
                             WriteFile(@, name, call.data)]
                     ELSE tempDirs
      /\ UNCHANGED <<nextId, requests, activeUploads, sentLog, uploadDir,
                     finalized, ended, stored, mtime, uploadedFiles, streams,
                     detached, resp>>
      /\ UNCHANGED jobVars
      /\ UNCHANGED clockVars

\* uploadChunk after the await: receivedChunks.add, the counts, return
UploadChunkReturn(c) ==
  LET call     == calls[c]
      upload   == UploadObject(call.uploadId)
      received == upload.receivedChunks \cup {call.index}
  IN  /\ call.pc = "written"
      /\ calls' = [calls EXCEPT
                     ![c].pc = "done", ![c].ok = TRUE,
                     ![c].received = Cardinality(received),
                     ![c].complete = Complete(Cardinality(received),
                                              upload.totalChunks)]
      /\ IF Has(activeUploads, call.uploadId)
         THEN /\ activeUploads' = [activeUploads EXCEPT
                   ![call.uploadId].receivedChunks = received]
              /\ sentLog' = [sentLog EXCEPT ![call.uploadId] =
                               Put(@, call.index, call.data)]
              /\ UNCHANGED detached
         ELSE /\ detached' = [detached EXCEPT
                   ![call.uploadId].receivedChunks = received]
              /\ UNCHANGED <<activeUploads, sentLog>>
      /\ UNCHANGED <<nextId, requests, tempDirs, uploadDir, finalized, ended,
                     stored, mtime, uploadedFiles, streams, resp>>
      /\ UNCHANGED jobVars
      /\ UNCHANGED clockVars

\* finalizeUpload up to `await readdir(upload.tempDir)`
FinalizeUploadBegin(uploadId) ==
  /\ requests' = requests + 1
  /\ IF ~Has(activeUploads, uploadId)
     THEN /\ calls' = Append(calls, [Call("finalize", uploadId) EXCEPT
                                       !.error = SessionNotFound])
          /\ UNCHANGED nextId
     ELSE IF MissingChunks(Cardinality(activeUploads[uploadId].receivedChunks),
                           activeUploads[uploadId].totalChunks)
     THEN /\ calls' = Append(calls, [Call("finalize", uploadId) EXCEPT
                                       !.error = "IncompleteUpload"])
          /\ UNCHANGED nextId
     ELSE /\ calls' = Append(calls, [Call("finalize", uploadId) EXCEPT
               !.pc = "readdir", !.fileId = nextId,
               !.ext = Ext(activeUploads[uploadId].fileName),
               !.fileName = activeUploads[uploadId].fileName,
               !.total = activeUploads[uploadId].totalChunks])
          /\ nextId' = nextId + 1
  /\ UNCHANGED <<uploadedFiles, streams, detached, resp>>
  /\ UNCHANGED uploadVars
  /\ UNCHANGED jobVars
  /\ UNCHANGED clockVars

\* readdir resolves with the chunk files there are, which are sorted, or it
\* rejects because the directory is gone
ReaddirDone(c) ==
  LET call == calls[c]
  IN  /\ call.pc = "readdir"
      /\ calls' = IF ~Has(tempDirs, call.uploadId)
                  THEN [calls EXCEPT ![c].pc = "done",
                                     ![c].error = "ReadFailed"]
                  ELSE [calls EXCEPT ![c].pc = "create",
                          ![c].chunks =
                             SortNames(DOMAIN tempDirs[call.uploadId])]
      /\ UNCHANGED <<nextId, requests, uploadedFiles, streams, detached, resp>>
      /\ UNCHANGED uploadVars
      /\ UNCHANGED jobVars
      /\ UNCHANGED clockVars

\* await writeFile(finalPath, Buffer.alloc(0))
CreateFinalFile(c) ==
  LET call      == calls[c]
      finalPath == <<call.fileId, call.ext>>
  IN  /\ call.pc = "create"
      /\ calls' = [calls EXCEPT ![c].pc = "append"]
      /\ uploadDir' = Put(uploadDir, finalPath, DataFile(<<>>))
      /\ mtime' = [mtime EXCEPT !.file = Put(@, finalPath, now)]
      /\ UNCHANGED <<nextId, requests, activeUploads, tempDirs, sentLog,
                     finalized, ended, stored, uploadedFiles, streams,
                     detached, resp>>
      /\ UNCHANGED jobVars
      /\ UNCHANGED clockVars

\* one round of the loop: the chunk file is read as it is now and appended
\* to the final file; a chunk file that is gone makes finalizeUpload throw
AppendChunk(c) ==
  LET call      == calls[c]
      finalPath == <<call.fileId, call.ext>>
      chunkFile == Head(call.chunks)
  IN  /\ call.pc = "append"
      /\ call.chunks # <<>>
      /\ IF Has(tempDirs, call.uploadId)
            /\ Has(tempDirs[call.uploadId], chunkFile)
            /\ Has(uploadDir, finalPath)
         THEN /\ calls' = [calls EXCEPT
                   ![c].chunks = Tail(@),
                   ![c].bytes = Append(@, tempDirs[call.uploadId][chunkFile])]
              /\ uploadDir' = [uploadDir EXCEPT ![finalPath].bytes =
                   Append(@, tempDirs[call.uploadId][chunkFile])]
         ELSE /\ calls' = [calls EXCEPT ![c].pc = "done",
                                        ![c].error = "ReadFailed"]
              /\ UNCHANGED uploadDir
      /\ UNCHANGED <<nextId, requests, activeUploads, tempDirs, sentLog,
                     finalized, ended, stored, mtime, uploadedFiles, streams,
                     detached, resp>>
      /\ UNCHANGED jobVars
      /\ UNCHANGED clockVars

\* after the loop: await writeFile(`${fileId}.json`, {name})
WriteSidecar(c) ==
  LET call == calls[c]
  IN  /\ call.pc = "append"
      /\ call.chunks = <<>>
      /\ calls' = [calls EXCEPT ![c].pc = "rm"]
      /\ uploadDir' = Put(uploadDir, <<call.fileId, "json">>,
                          MetaFile(call.fileName))
      /\ mtime' = [mtime EXCEPT !.file = Put(@, <<call.fileId, "json">>, now)]
      /\ UNCHANGED <<nextId, requests, activeUploads, tempDirs, sentLog,
                     finalized, ended, stored, uploadedFiles, streams,
                     detached, resp>>
      /\ UNCHANGED jobVars
      /\ UNCHANGED clockVars

\* await rm(upload.tempDir, {recursive, force})
RemoveTempDir(c) ==
  LET call == calls[c]
  IN  /\ call.pc = "rm"
      /\ calls' = [calls EXCEPT ![c].pc = "delete"]
      /\ tempDirs' = FinalizeCleanup(tempDirs, call.uploadId)
      /\ mtime' = [mtime EXCEPT !.temp = FinalizeCleanup(@, call.uploadId)]
      /\ UNCHANGED <<nextId, requests, activeUploads, sentLog, uploadDir,
                     finalized, ended, stored, uploadedFiles, streams,
                     detached, resp>>
      /\ UNCHANGED jobVars
      /\ UNCHANGED clockVars

\* finalizeUpload after the last await: activeUploads.delete, return
FinalizeUploadReturn(c) ==
  LET call   == calls[c]
      result == [fileId |-> call.fileId, fileName |-> call.fileName,
                 filePath |-> <<call.fileId, call.ext>>,
                 uploadId |-> call.uploadId, bytes |-> call.bytes]
  IN  /\ call.pc = "delete"
      /\ calls' = [calls EXCEPT ![c].pc = "done", ![c].ok = TRUE]
      /\ activeUploads' = FinalizeCleanup(activeUploads, call.uploadId)
      /\ detached' = IF Has(activeUploads, call.uploadId)
                     THEN Put(detached, call.uploadId,
                              activeUploads[call.uploadId])
                     ELSE detached
      /\ sentLog' = FinalizeCleanup(sentLog, call.uploadId)
      /\ finalized' = finalized \cup {result}
      /\ ended' = Put(ended, call.uploadId, "finalized")
      /\ UNCHANGED <<nextId, requests, tempDirs, uploadDir, stored, mtime,
                     uploadedFiles, streams, resp>>
      /\ UNCHANGED jobVars
      /\ UNCHANGED clockVars

\* ======================================================== specifications
\* identifier 0 is never issued: it stands for an unknown identifier
KnownIds == 0..(nextId - 1)

UploadNext ==
  /\ requests < MaxUploadRequests
  /\ \/ \E n \in FileNames, size \in FileSizes : InitChunkedUpload(n, size)
     \/ \E u \in KnownIds, i \in ChunkIndices, d \in Payloads : UploadChunk(u, i, d)
     \/ \E u \in KnownIds : FinalizeUpload(u)
     \/ \E u \in KnownIds : CancelUpload(u)
     \/ \E f \in KnownIds, p \in Presets : StartJob(f, p)

\* The session operations alone.  They read a session's file name only to
\* derive the extension of the finalized file, so one name stands for all.
SessionNames == { <<"song", "mp3">> }

SessionNext ==
  /\ requests < MaxSessionRequests
  /\ \/ \E n \in SessionNames, size \in FileSizes : InitChunkedUpload(n, size)
     \/ \E u \in KnownIds, i \in ChunkIndices, d \in Payloads : UploadChunk(u, i, d)
     \/ \E u \in KnownIds : FinalizeUpload(u)
     \/ \E u \in KnownIds : CancelUpload(u)

\* The job flow never reads the bytes of a stored file, so one payload
\* stands for all of them here; of a file's name it uses the part before
\* the last dot, which a name has or has not.
JobFileNames == { <<"song", "mp3">>, <<"demo", "">> }

JobRequest ==
  /\ requests < MaxJobRequests
  /\ \/ \E n \in JobFileNames : StoreUpload(n, "A")
     \/ \E f \in KnownIds, p \in Presets : StartJob(f, p)
     \/ \E j \in KnownIds : OpenStream(j)

JobEvent ==
  \/ \E j \in DOMAIN task : SpawnFFmpeg(j)
  \/ \E j \in DOMAIN task : OutputDirFails(j)
  \/ \E j \in DOMAIN child, d \in Optional(Durations), t \in Optional(Positions) :
       StderrData(j, d, t)
  \/ \E j \in DOMAIN child, code \in ExitCodes : ChildClose(j, code)
  \/ \E j \in DOMAIN child : ChildError(j)
  \/ \E c \in DOMAIN streams : CloseTimer(c)
  \/ \E c \in DOMAIN streams : ClientAbort(c)

JobNext == JobRequest \/ JobEvent

\* One job observed by several progress streams, any of which may lose its
\* connection: a single stored file, a single job, and as many streams as
\* the request budget leaves.
FanOutRequest ==
  /\ requests < MaxFanOutRequests
  /\ \/ uploadedFiles = EmptyMap /\ StoreUpload(<<"song", "mp3">>, "A")
     \/ jobs = {} /\ \E f \in KnownIds, p \in Presets : StartJob(f, p)
     \/ \E j \in KnownIds : OpenStream(j)

FanOutNext ==
  \/ FanOutRequest
  \/ JobEvent
  \/ \E c \in DOMAIN streams : StreamCancel(c)

\* The two ways out of a progress stream: one stored file, one job whose
\* tool prints one progress line and exits, and the streams opened on it.
StreamRequest ==
  /\ requests < MaxStreamRequests
  /\ \/ uploadedFiles = EmptyMap /\ StoreUpload(<<"song", "mp3">>, "A")
     \/ jobs = {} /\ \E f \in KnownIds, p \in Presets : StartJob(f, p)
     \/ \E j \in KnownIds : OpenStream(j)

StreamEvent ==
  \/ \E j \in DOMAIN task : SpawnFFmpeg(j)
  \/ \E j \in DOMAIN child :
       StderrData(j, << <<0, 0, 10, 0>> >>, << <<0, 0, 5, 0>> >>)
  \/ \E j \in DOMAIN child, code \in ExitCodes : ChildClose(j, code)
  \/ \E c \in DOMAIN streams : CloseTimer(c)
  \/ \E c \in DOMAIN streams : ClientAbort(c)

StreamNext == StreamRequest \/ StreamEvent

\* The two ways of storing a file side by side: the single-shot upload, and
\* a session for a file of one chunk.
StoreNext ==
  /\ requests < MaxStoreRequests
  /\ \/ \E n \in FileNames, d \in Payloads : StoreUpload(n, d)
     \/ \E n \in FileNames : InitChunkedUpload(n, CHUNK_SIZE)
     \/ \E u \in KnownIds, d \in Payloads : UploadChunk(u, 0, d)
     \/ \E u \in KnownIds : FinalizeUpload(u)

\* Uploads, files and jobs while time passes: one file name, one payload,
\* a file of one chunk.
ServerRequest ==
  /\ requests < MaxSweepRequests
  /\ \/ InitChunkedUpload(<<"song", "mp3">>, CHUNK_SIZE)
     \/ \E u \in KnownIds : UploadChunk(u, 0, "A")
     \/ \E u \in KnownIds : FinalizeUpload(u)
     \/ StoreUpload(<<"song", "mp3">>, "A")
     \/ \E f \in KnownIds, p \in Presets : StartJob(f, p)

ServerEvent ==
  \/ \E j \in DOMAIN task : SpawnFFmpeg(j)
  \/ \E j \in DOMAIN child, code \in ExitCodes : ChildClose(j, code)
  \/ \E d \in TimeSteps : Advance(d)

\* The server as its entry point runs it: no call of startCleanupJob.
ServerNext == ServerRequest \/ ServerEvent

\* The same with the sweeper: startCleanupJob is called at some moment and
\* its interval timer ticks.
SweepNext ==
  \/ ServerNext
  \/ StartCleanupJob
  \/ CleanupTick

\* The job registry under the sweeper: one stored file, the jobs started on
\* it at different times and run to either end, and the subscriptions to
\* them.
ReapRequest ==
  /\ requests < MaxReapRequests
  /\ \/ uploadedFiles = EmptyMap /\ StoreUpload(<<"song", "mp3">>, "A")
     \/ \E f \in KnownIds, p \in Presets : StartJob(f, p)
     \/ \E j \in KnownIds : OpenStream(j)

ReapEvent ==
  \/ \E j \in DOMAIN task : SpawnFFmpeg(j)
  \/ \E j \in DOMAIN child, code \in ExitCodes : ChildClose(j, code)
  \/ \E d \in TimeSteps : Advance(d)
  \/ StartCleanupJob
  \/ CleanupTick

ReapNext == ReapRequest \/ ReapEvent

\* The uploads with their awaits: sessions of one and of two chunks, the
\* chunk and finalize calls on them begun in any order, and every call
\* resumed whenever the await it stands at can resolve.  The client sends
\* the chunk indices of its file only.
RaceSizes   == { CHUNK_SIZE, CHUNK_SIZE + 1 }
RaceIndices == 0..(MaxChunks - 1)

RaceRequest ==
  /\ requests < MaxRaceRequests
  /\ \/ \E size \in RaceSizes : InitChunkedUpload(<<"song", "mp3">>, size)
     \/ \E u \in KnownIds, i \in RaceIndices, d \in Payloads :
          /\ Has(activeUploads, u) => i < activeUploads[u].totalChunks
          /\ UploadChunkBegin(u, i, d)
     \/ \E u \in KnownIds : FinalizeUploadBegin(u)

RaceEvent ==
  \/ \E c \in DOMAIN calls : WriteFileOpen(c)
  \/ \E c \in DOMAIN calls : WriteFileDone(c)
  \/ \E c \in DOMAIN calls : UploadChunkReturn(c)
  \/ \E c \in DOMAIN calls : ReaddirDone(c)
  \/ \E c \in DOMAIN calls : CreateFinalFile(c)
  \/ \E c \in DOMAIN calls : AppendChunk(c)
  \/ \E c \in DOMAIN calls : WriteSidecar(c)
  \/ \E c \in DOMAIN calls : RemoveTempDir(c)
  \/ \E c \in DOMAIN calls : FinalizeUploadReturn(c)

RaceNext == RaceRequest \/ RaceEvent

Next == UploadNext \/ SessionNext \/ JobNext \/ FanOutNext \/ StreamNext
          \/ StoreNext \/ SweepNext \/ ReapNext \/ RaceNext

UploadSpec == Init /\ [][UploadNext]_vars
SessionSpec == Init /\ [][SessionNext]_vars
FanOutSpec == Init /\ [][FanOutNext]_vars
StreamSpec == Init /\ [][StreamNext]_vars
StoreSpec  == Init /\ [][StoreNext]_vars
ServerSpec == Init /\ [][ServerNext]_vars
SweepSpec  == Init /\ [][SweepNext]_vars
ReapSpec   == Init /\ [][ReapNext]_vars
RaceSpec   == Init /\ [][RaceNext]_vars
JobSpec    == Init /\ [][JobNext]_vars
Spec       == Init /\ [][Next]_vars

\* the identifiers a behaviour of JobSpec can issue
JobIds    == 1..(2 * MaxJobRequests)
StreamIds == 1..MaxJobRequests

\* The event loop runs every callback that is due: the output directory
\* call returns, the tool eventually exits, an armed timer fires.  A client
\* is never obliged to disconnect.
FairJobSpec ==
  /\ JobSpec
  /\ WF_vars(\E j \in JobIds : SpawnFFmpeg(j) \/ OutputDirFails(j))
  /\ WF_vars(\E j \in JobIds, code \in ExitCodes : ChildClose(j, code))
  /\ WF_vars(\E c \in StreamIds : CloseTimer(c))

\* the progress streams of StreamSpec under the same scheduling: an armed
\* close timer fires
FairStreamSpec ==
  /\ StreamSpec
  /\ WF_vars(\E c \in 1..MaxStreamRequests : CloseTimer(c))

\* ================================================================ claims
\* In the step formulas below the leading tests of requests' and resp'.op
\* are implied by the action that follows them; they only spare evaluating
\* that action on the steps of other handlers.
TerminalStatus == {"complete", "error"}
EventsOf(j)    == [i \in 1..Len(published[j]) |-> published[j][i].event]
TerminalCount(events) ==
  Cardinality({ i \in 1..Len(events) : IsTerminal(events[i]) })
ProgressIndices(events) ==
  { i \in 1..Len(events) : events[i].type = "progress" }

\* C1: finalize succeeds if and only if the received-index set of the
\* session equals {0, ..., totalChunks-1}; with an index of that range
\* missing it fails with IncompleteUpload.
C1_FinalizeIffAllReceived ==
  (resp.op = "finalize" /\ "total" \in DOMAIN resp)
    => (resp.ok <=> resp.received = 0..(resp.total - 1))

\* C2: after the chunks 0..n-1 of a session were written in any order,
\* finalize leaves at the returned path the concatenation of the chunk
\* payloads in increasing index order.
C2_OrderIndependentContent ==
  (resp.op = "finalize" /\ resp.ok /\ resp.received = 0..(resp.total - 1))
    => /\ Has(uploadDir, resp.filePath)
       /\ uploadDir[resp.filePath]
            = DataFile([i \in 1..resp.total |-> resp.sent[i - 1]])

\* C3: a job publishes at most one terminal event, never a complete and an
\* error event both, and exactly one once its background task has ended,
\* whatever the order of the child's close and error callbacks.
C3_OneTerminalEvent ==
  \A j \in DOMAIN published :
    /\ TerminalCount(EventsOf(j)) <= 1
    /\ task[j].pc = "done" <=> TerminalCount(EventsOf(j)) = 1
    /\ job[j].status \in TerminalStatus <=> TerminalCount(EventsOf(j)) = 1

C3_Witness ==
  \E j \in DOMAIN child :
    /\ child[j].closed /\ child[j].errored
    /\ TerminalCount(EventsOf(j)) = 1

\* C4: the values assigned to a job's status follow pending, processing and
\* then at most one of complete and error: no step back, no terminal state
\* straight from pending, no assignment after a terminal state.
C4_StatusForwardOnly ==
  \A j \in DOMAIN statusLog :
    /\ statusLog[j] \in { <<"pending", "processing">>,
                          <<"pending", "processing", "complete">>,
                          <<"pending", "processing", "error">> }
    /\ job[j].status = statusLog[j][Len(statusLog[j])]

C4_Witness ==
  \E j \in DOMAIN child :
    /\ statusLog[j] = <<"pending", "processing", "complete">>
    /\ child[j].errored

\* C5: the progress values a job publishes are strictly increasing and at
\* most 99, and a job's progress is 100 only in the complete state.
C5_ProgressMonotone ==
  \A j \in DOMAIN published :
    LET events == EventsOf(j) IN
    /\ \A i \in ProgressIndices(events) : events[i].progress <= 99
    /\ \A i, k \in ProgressIndices(events) :
         i < k => events[i].progress < events[k].progress
    /\ job[j].progress = 100 => job[j].status = "complete"
    /\ job[j].progress \in 0..100

C5_Witness ==
  \E j \in DOMAIN published :
    /\ Cardinality(ProgressIndices(EventsOf(j))) >= 3
    /\ \E i \in ProgressIndices(EventsOf(j)) : EventsOf(j)[i].progress = 99
    /\ job[j].progress = 100

\* C6: a callback receives a snapshot of the job's state as soon as it is
\* subscribed, so every open stream has received an event, and a stream of
\* a finished job has received that job's terminal event exactly once.
C6_SubscribeReplaysState ==
  \A c \in DOMAIN streams :
    LET s  == streams[c]
        jb == job[s.job]
    IN  /\ s.received # <<>>
        /\ jb.status = "complete" =>
             Cardinality({ i \in 1..Len(s.received) :
                 s.received[i] = [type |-> "complete",
                                  result |-> jb.result[1]] }) = 1
        /\ jb.status = "error" =>
             Cardinality({ i \in 1..Len(s.received) :
                 s.received[i] = [type |-> "error",
                                  error |-> jb.error[1]] }) = 1

\* C7: a client that opened the progress stream of a job eventually
\* receives a terminal event, unless it disconnects.
C7_NoIndefiniteSilence ==
  \A c \in StreamIds :
    [](Has(streams, c) =>
         <>(/\ Has(streams, c)
            /\ \/ streams[c].aborted
               \/ \E i \in 1..Len(streams[c].received) :
                    IsTerminal(streams[c].received[i])))

\* C9: the file identifier a successful finalize returned is found by the
\* job scheduler's lookup, with the session's file name and the path of the
\* finalized file, and startJob does not reject it.
C9_FinalizedFileIsFound ==
  \A r \in finalized :
    /\ GetUpload(r.fileId) = { <<[path |-> r.filePath, name |-> r.fileName]>> }
    /\ (resp.op = "process" /\ resp.fileId = r.fileId) => resp.ok

\* C10: the processed-file registry holds the result under the same display
\* name when the complete event is published and whenever a job is complete.
C10_RegisteredBeforeAnnounced ==
  \A j \in DOMAIN published :
    /\ \A i \in 1..Len(published[j]) : published[j][i].registered
    /\ job[j].status = "complete" =>
         /\ Has(processedFiles, job[j].result[1].downloadId)
         /\ processedFiles[job[j].result[1].downloadId].name
              = job[j].result[1].fileName

C10_Witness ==
  \E c \in DOMAIN streams :
    /\ job[streams[c].job].status = "complete"
    /\ \E i \in 1..Len(streams[c].received) :
         /\ streams[c].received[i].type = "complete"
         /\ Has(processedFiles, streams[c].received[i].result.downloadId)

\* C11: re-sending an index a session has already received replaces the
\* stored bytes of that chunk by the new payload and leaves the
\* received-index set, the received count and the complete flag as they were.
C11_ResendOverwrites ==
  [][\A u \in KnownIds, i \in ChunkIndices, d \in Payloads :
       (/\ resp'.op = "chunk"
        /\ Has(activeUploads, u)
        /\ i \in activeUploads[u].receivedChunks
        /\ UploadChunk(u, i, d))
       => /\ tempDirs'[u] = [tempDirs[u] EXCEPT ![ChunkFileName(i)] = d]
          /\ activeUploads' = activeUploads
          /\ resp'.ok
          /\ resp'.received = GetUploadStatus(u).received
          /\ resp'.complete = GetUploadStatus(u).complete]_vars

C11_Witness ==
  /\ resp.op = "chunk" /\ resp.ok /\ resp.resent
  /\ resp.received = 2 /\ resp.complete

\* C12: a chunk write returns the number of distinct indices received so
\* far, the session's totalChunks, and complete exactly when the two are
\* equal; with n distinct in-range indices written, complete is returned
\* exactly when all of 0..total-1 have arrived.  The status read agrees.
C12_ReceivedCount ==
  (resp.op = "chunk" /\ resp.ok) =>
    LET upload == activeUploads[resp.uploadId]
        sent   == DOMAIN sentLog[resp.uploadId]
    IN  /\ resp.received = Cardinality(sent)
        /\ resp.total = upload.totalChunks
        /\ resp.complete <=> resp.received = resp.total
        /\ sent \subseteq 0..(resp.total - 1)
             => (resp.complete <=> sent = 0..(resp.total - 1))
        /\ GetUploadStatus(resp.uploadId)
             = [exists |-> TRUE, received |-> resp.received,
                total |-> resp.total, complete |-> resp.complete]

C12_Witness ==
  /\ resp.op = "chunk" /\ resp.ok /\ ~resp.resent
  /\ resp.complete /\ resp.received = MaxChunks
  /\ DOMAIN sentLog[resp.uploadId] = 0..(MaxChunks - 1)

C14_FinalizeNotIdempotent ==
  /\ [](\A u \in DOMAIN ended :
          ended[u] = "finalized"
            => ~Has(activeUploads, u) /\ ~Has(tempDirs, u))
  /\ [][\A u \in KnownIds :
          (/\ resp'.op = "finalize"
           /\ Has(ended, u) /\ ended[u] = "finalized"
           /\ FinalizeUpload(u))
          => /\ ~resp'.ok
             /\ resp'.error = "SessionNotFound"
             /\ UNCHANGED <<uploadDir, finalized, activeUploads,
                            tempDirs>>]_vars

C14_Witness ==
  /\ resp.op = "finalize" /\ ~resp.ok
  /\ Has(ended, resp.uploadId) /\ ended[resp.uploadId] = "finalized"
  /\ finalized # {}

\* C15: cancel removes the session record and its temporary storage, after
\* which the status read reports exists = false; on an id that names no
\* session it raises no error and changes nothing, and it never changes
\* another session.
C15_CancelIdempotent ==
  [][\A u \in KnownIds :
       (resp'.op = "cancel" /\ CancelUpload(u))
       => /\ resp'.ok
          /\ ~Has(activeUploads', u) /\ ~Has(tempDirs', u)
          /\ GetUploadStatus(u)' = [exists |-> FALSE]
          /\ \A v \in DOMAIN activeUploads \ {u} :
               /\ Has(activeUploads', v) /\ Has(tempDirs', v)
               /\ activeUploads'[v] = activeUploads[v]
               /\ tempDirs'[v] = tempDirs[v]
          /\ ~Has(activeUploads, u)
               => UNCHANGED <<activeUploads, tempDirs, uploadDir>>]_vars

C15_Witness ==
  /\ resp.op = "cancel" /\ resp.ok /\ ~resp.existed
  /\ Has(ended, resp.uploadId) /\ ended[resp.uploadId] = "cancelled"
  /\ activeUploads # EmptyMap

\* C16: init with a fileSize above the maximum fails with PayloadTooLarge
\* and creates neither a session record nor temporary storage; with a
\* fileSize at or below the maximum it creates exactly one new session,
\* with an empty received set and an empty temporary directory.
C16_PayloadTooLarge ==
  [][\A n \in SessionNames, size \in FileSizes :
       (resp'.op = "init" /\ InitChunkedUpload(n, size))
       => IF size > MAX_FILE_SIZE
          THEN /\ ~resp'.ok
               /\ resp'.error = "PayloadTooLarge"
               /\ UNCHANGED <<activeUploads, tempDirs>>
          ELSE /\ resp'.ok
               /\ ~Has(activeUploads, resp'.uploadId)
               /\ ~Has(ended, resp'.uploadId)
               /\ activeUploads' = Put(activeUploads, resp'.uploadId,
                      [fileName |-> n, totalChunks |-> resp'.totalChunks,
                       receivedChunks |-> {}, createdAt |-> now])
               /\ tempDirs' = Put(tempDirs, resp'.uploadId, EmptyMap)]_vars

C16_Witness ==
  /\ resp.op = "init" /\ ~resp.ok
  /\ resp.fileSize = MAX_FILE_SIZE + 1
  /\ activeUploads # EmptyMap

\* C17: the totalChunks init returns is the least n with
\* n * chunkSize >= fileSize, so the chunks 0..n-1 cover the file and none
\* of them is empty; 12,000,000 bytes give 3 chunks.
C17_TotalChunksIsCeiling ==
  /\ TotalChunks(12000000) = 3
  /\ (resp.op = "init" /\ resp.ok) =>
       LET n == resp.totalChunks
       IN  /\ n * resp.chunkSize >= resp.fileSize
           /\ (n - 1) * resp.chunkSize < resp.fileSize
           /\ resp.chunkSize = CHUNK_SIZE
           /\ activeUploads[resp.uploadId].totalChunks = n

C17_Witness ==
  /\ resp.op = "init" /\ resp.ok
  /\ resp.fileSize = CHUNK_SIZE + 1
  /\ resp.totalChunks = 2

\* no entry of the lookup's cache or of the uploads directory bears the id
NoStoredFile(fileId) ==
  /\ ~Has(uploadedFiles, fileId)
  /\ \A f \in DOMAIN uploadDir : f[1] # fileId

\* C18: startJob with a fileId that has no stored file fails with
\* UploadNotFound: no job record is created, nothing is spawned and no
\* event is published.
C18_UploadNotFound ==
  [][\A f \in KnownIds, p \in Presets :
       (/\ requests' # requests /\ resp'.op = "process"
        /\ NoStoredFile(f) /\ StartJob(f, p))
       => /\ ~resp'.ok
          /\ resp'.error = "UploadNotFound"
          /\ UNCHANGED <<jobs, job, task, child, published, statusLog,
                         streams, processedFiles>>]_vars

C18_Witness ==
  /\ resp.op = "process" /\ ~resp.ok
  /\ NoStoredFile(resp.fileId)
  /\ jobs # {}
  /\ \A j \in jobs : job[j].fileId # resp.fileId

\* the ways a job fails the first time: the output directory cannot be
\* made, the tool cannot be launched, the tool exits with a non-zero code
JobFailure(j) ==
  \/ OutputDirFails(j)
  \/ ~task[j].settled /\ ChildError(j)
  \/ ~task[j].settled /\ \E code \in ExitCodes \ {0} : ChildClose(j, code)

\* C19: once the lookup succeeds startJob returns a jobId, and a job-level
\* failure leaves the last response as it was, sets the job's status to
\* error with a message and publishes an error event carrying that message
\* to the job's subscribers.
C19_FailuresAreAsynchronous ==
  /\ [][\A f \in KnownIds, p \in Presets :
          (/\ requests' # requests /\ resp'.op = "process"
           /\ GetUpload(f) # { <<>> } /\ StartJob(f, p))
          => /\ resp'.ok
             /\ resp'.jobId \in jobs' \ jobs]_vars
  /\ [][\A j \in DOMAIN task :
          (requests' = requests /\ task[j].pc # "done" /\ JobFailure(j))
          => /\ resp' = resp
             /\ job'[j].status = "error"
             /\ Len(job'[j].error) = 1
             /\ published'[j][Len(published'[j])].event
                  = [type |-> "error", error |-> job'[j].error[1]]
             /\ \A c \in job[j].subscribers :
                  ~streams[c].closed
                    => streams'[c].received[Len(streams'[c].received)]
                         = [type |-> "error",
                            error |-> job'[j].error[1]]]_vars

C19_Witness ==
  /\ resp.op = "process" /\ resp.ok
  /\ job[resp.jobId].status = "error"
  /\ Has(child, resp.jobId)
  /\ child[resp.jobId].closed /\ ~child[resp.jobId].errored

\* C20: when an event is published and the callback of one subscriber
\* throws, every other subscriber registered at that moment has received
\* the event, and a terminal event still leaves the job in its state.
C20_SubscriberIsolation ==
  \A j \in DOMAIN published :
    \A i \in 1..Len(published[j]) :
      LET p == published[j][i]
      IN  /\ \A c \in p.subscribers \ p.failed :
               \E k \in 1..Len(streams[c].received) :
                 streams[c].received[k] = p.event
          /\ IsTerminal(p.event) => job[j].status = p.event.type

C20_Witness ==
  \E j \in DOMAIN published :
    \E i \in 1..Len(published[j]) :
      LET p == published[j][i]
      IN  /\ IsTerminal(p.event)
          /\ \E c \in p.failed, d \in p.subscribers \ p.failed : c < d

\* a call of the handle subscribe returned to stream c: the two places the
\* progress route calls it from
UnsubscribeCall(c) == CloseTimer(c) \/ ClientAbort(c)

\* C21: the handle subscribe returns deregisters exactly its own callback:
\* a call removes that callback from its job's subscribers and no other
\* subscriber of any job, a second call changes nothing, and after the
\* first call the callback receives no further event.
C21_UnsubscribeExactlyThatCallback ==
  /\ [][\A c \in DOMAIN streams :
          (requests' = requests /\ UnsubscribeCall(c))
          => /\ \A j \in DOMAIN job :
                  job'[j].subscribers = job[j].subscribers \ {c}
             /\ c \notin job[streams[c].job].subscribers => job' = job]_vars
  /\ [][\A c \in DOMAIN streams :
          streams[c].left # <<>>
          => streams'[c].received = streams[c].received]_vars

C21_Witness ==
  \E c, d \in DOMAIN streams :
    /\ c # d
    /\ streams[c].job = streams[d].job
    /\ streams[c].closeErrors >= 1
    /\ streams[c].left # <<>>
    /\ d \in job[streams[d].job].subscribers
    /\ Len(published[streams[c].job]) > streams[c].left[1]

\* the events the job of stream s published after s joined and before its
\* handle was called, without those its closed controller refused
DueTo(c) ==
  LET s   == streams[c]
      log == published[s.job]
      F[k \in 0..Len(log)] ==
        IF k = 0 THEN <<>>
        ELSE IF k > s.joined /\ k <= Left(s)[1] /\ c \notin log[k].failed
             THEN Append(F[k - 1], log[k].event)
             ELSE F[k - 1]
  IN  F[Len(log)]

\* C22: whatever the interleaving of subscribe, unsubscribe and publish on
\* one job, a subscriber is handed every event published after it joined
\* and before it unsubscribed exactly once and in order, and nothing else:
\* nothing from before it joined, nothing after it was removed.
C22_DeliveredExactlyOnce ==
  \A c \in DOMAIN streams : streams[c].received = DueTo(c)

C22_Witness ==
  \E c, d \in DOMAIN streams :
    /\ c # d
    /\ streams[c].job = streams[d].job
    /\ streams[c].joined < streams[d].joined
    /\ streams[c].left # <<>>
    /\ streams[d].left = <<>>
    /\ streams[c].left[1] > streams[d].joined
    /\ Len(published[streams[d].job]) > streams[c].left[1]
    /\ Len(streams[d].received) >= 2

\* stream c has been handed a terminal event
GotTerminal(c) ==
  \E i \in 1..Len(streams[c].received) : IsTerminal(streams[c].received[i])

\* stream c is closed and its callback is no longer subscribed
Ended(c) ==
  /\ streams[c].closed
  /\ c \notin job[streams[c].job].subscribers

\* C27: a progress stream ends its subscription on both ways out: a stream
\* that was handed a terminal event is eventually closed and deregistered
\* (its close timer is armed until then), a client disconnect closes and
\* deregisters it in the same step, and nothing is written to a stream
\* once it is closed.
C27_StreamEndsSubscription ==
  /\ \A c \in 1..MaxStreamRequests :
       (Has(streams, c) /\ GotTerminal(c)) ~> (Has(streams, c) /\ Ended(c))
  /\ [](\A c \in DOMAIN streams :
          GotTerminal(c) => (streams[c].timers > 0 \/ Ended(c)))
  /\ [][\A c \in DOMAIN streams :
          (requests' = requests /\ ClientAbort(c)) => Ended(c)']_vars
  /\ [][\A c \in DOMAIN streams :
          streams[c].closed
          => streams'[c].received = streams[c].received]_vars

C27_Witness ==
  \E c, d \in DOMAIN streams :
    /\ GotTerminal(c) /\ Ended(c) /\ ~streams[c].aborted
    /\ ~GotTerminal(d) /\ Ended(d) /\ streams[d].aborted

\* C30: in every session every received index lies in [0, totalChunks) and
\* the number of received indices never exceeds totalChunks.
C30_ReceivedIndicesInRange ==
  \A u \in DOMAIN activeUploads :
    /\ \A i \in activeUploads[u].receivedChunks :
         0 <= i /\ i < activeUploads[u].totalChunks
    /\ Cardinality(activeUploads[u].receivedChunks)
         <= activeUploads[u].totalChunks

\* what a client can observe of a stored file: the outcomes of the lookup
\* (whether it is found, its display name, the content at its path) and the
\* sidecar
Observed(fileId) ==
  [lookup  |-> { IF x = <<>>
                 THEN [found |-> FALSE, name |-> <<>>, content |-> <<>>]
                 ELSE [found |-> TRUE, name |-> x[1].name,
                       content |-> IF Has(uploadDir, x[1].path)
                                   THEN <<uploadDir[x[1].path]>> ELSE <<>>]
                 : x \in GetUpload(fileId) },
   sidecar |-> IF Has(uploadDir, <<fileId, "json">>)
               THEN <<uploadDir[<<fileId, "json">>]>> ELSE <<>>]

\* the observation both ways of storing promise for a name and its bytes
StoredAs(fileName, bytes) ==
  [lookup  |-> { [found |-> TRUE, name |-> fileName,
                  content |-> <<DataFile(bytes)>>] },
   sidecar |-> <<MetaFile(fileName)>>]

\* C28: the single-shot store and a session of one chunk that is finalized
\* leave the same observable result for the same name and bytes: no
\* session, and a stored file the lookup finds under that display name with
\* that content and that sidecar.
C28_SingleShotEqualsChunked ==
  \A s \in stored, r \in finalized :
    (s.fileName = r.fileName /\ s.bytes = r.bytes)
    => /\ ~Has(activeUploads, r.uploadId)
       /\ Observed(s.fileId) = StoredAs(s.fileName, s.bytes)
       /\ Observed(r.fileId) = StoredAs(r.fileName, r.bytes)

\* a step in which runCleanup ran
Swept == cleanup'.sweeps # cleanup.sweeps

\* C25: the reap of the job registry removes exactly the jobs whose age
\* exceeds the window, whatever their status, and leaves every job record
\* (status, progress, subscribers) as it was; getJob and subscribe then
\* report a removed job as not found.
C25_ReapsExactlyOldJobs ==
  /\ [][Swept
          => /\ jobs' = { j \in jobs : now - idTime[j] <= MAX_AGE_MS }
             /\ job' = job]_vars
  /\ [][\A j \in KnownIds :
          (/\ requests' # requests /\ resp'.op = "progress"
           /\ j \in DOMAIN job /\ j \notin jobs /\ OpenStream(j))
          => /\ ~resp'.ok
             /\ resp'.error = "JobNotFound"
             /\ UNCHANGED <<streams, job>>]_vars

C25_Witness ==
  \E j \in DOMAIN job, k \in jobs :
    /\ j \notin jobs
    /\ job[j].status = "processing"
    /\ cleanup.last - idTime[k] = MAX_AGE_MS

\* C23: a sweep reaps the stale upload sessions: a session older than the
\* window is afterwards absent from the status query and its temporary
\* storage is deleted, a younger one keeps its record and its storage, and
\* a chunk write to a reaped session fails with SessionNotFound.
C23_SweepReapsStaleSessions ==
  /\ [][Swept
          => \A u \in DOMAIN activeUploads :
               IF now - activeUploads[u].createdAt > MAX_AGE_MS
               THEN /\ ~GetUploadStatus(u)'.exists
                    /\ ~Has(tempDirs', u)
               ELSE /\ Has(activeUploads', u)
                    /\ activeUploads'[u] = activeUploads[u]
                    /\ Has(tempDirs, u)
                         => Has(tempDirs', u) /\ tempDirs'[u] = tempDirs[u]]_vars
  /\ []((resp.op = "chunk" /\ ~resp.ok) => resp.error = SessionNotFound)

\* the stored files that were handed out: identifier and path
HandedOut ==
  { [fileId |-> r.fileId, path |-> r.filePath] : r \in stored }
    \cup { [fileId |-> r.fileId, path |-> r.filePath] : r \in finalized }

\* C24: after a sweep a stored file older than the window is absent from
\* the lookups (getUpload returns nothing for an uploaded input, the
\* download lookup nothing for a processed output), a younger one is found
\* as before, and no registry entry refers to a blob that is not there.
C24_SweptFilesAreNotFound ==
  [][Swept
       => /\ \A f \in HandedOut :
               Has(mtime.file, f.path)
               => IF now - mtime.file[f.path] > MAX_AGE_MS
                  THEN GetUpload(f.fileId)' = { <<>> }
                  ELSE /\ GetUpload(f.fileId)' = GetUpload(f.fileId)
                       /\ Has(uploadDir', f.path)
          /\ \A d \in DOMAIN processedFiles :
               Has(outputDir, processedFiles[d].path)
               => IF now - outputDir[processedFiles[d].path] > MAX_AGE_MS
                  THEN Download(d)' = "FileNotFound"
                  ELSE Download(d)' = "ok"
          /\ \A f \in DOMAIN uploadedFiles' :
               Has(uploadDir', uploadedFiles'[f].path)
          /\ \A d \in DOMAIN processedFiles' :
               Has(outputDir', processedFiles'[d].path)]_vars

\* C26: a sweep removes only entries strictly older than the window, never
\* the temporary storage of a session that is in the session registry and
\* never the source file of a job that is pending or processing.
C26_SweepSparesInFlightWork ==
  [][Swept
       => /\ \A u \in DOMAIN tempDirs \ DOMAIN tempDirs' :
               now - mtime.temp[u] > MAX_AGE_MS
          /\ \A f \in DOMAIN uploadDir \ DOMAIN uploadDir' :
               now - mtime.file[f] > MAX_AGE_MS
          /\ \A o \in DOMAIN outputDir \ DOMAIN outputDir' :
               now - outputDir[o] > MAX_AGE_MS
          /\ \A j \in jobs \ jobs' : now - idTime[j] > MAX_AGE_MS
          /\ \A u \in DOMAIN activeUploads :
               Has(tempDirs, u) => Has(tempDirs', u)
          /\ \A j \in DOMAIN job :
               (/\ job[j].status \in {"pending", "processing"}
                /\ Has(uploadDir, task[j].upload.path))
               => Has(uploadDir', task[j].upload.path)]_vars

\* C29: the sweeper runs by itself from the start of the server: by the
\* time the server has handled a request or the clock has moved, the
\* interval timer is set and one sweep has run, and no more than an interval
\* ever passes since the latest sweep.
C29_SweeperRunsFromStart ==
  /\ (requests >= 1 \/ now > 0) => (cleanup.timer /\ cleanup.sweeps >= 1)
  /\ now - cleanup.last <= CLEANUP_INTERVAL_MS

\* C31: a job record carries a subprocess handle only while its status is
\* processing.
C31_HandleOnlyWhileProcessing ==
  \A j \in DOMAIN job : job[j].process => job[j].status = "processing"

\* C37: a terminal event is final: once a job's status is complete or error
\* nothing more is published for it and its status, progress, result and
\* error stay as they are.
C37_TerminalEventIsFinal ==
  [][\A j \in DOMAIN job :
       job[j].status \in TerminalStatus
       => /\ published'[j] = published[j]
          /\ job'[j].status = job[j].status
          /\ job'[j].progress = job[j].progress
          /\ job'[j].result = job[j].result
          /\ job'[j].error = job[j].error]_vars

\* C40: every job record is consistent: progress is an integer of 0..100
\* and is 100 exactly when the status is complete, a result is present
\* exactly when the status is complete, an error message exactly when the
\* status is error.
C40_JobRecordConsistent ==
  \A j \in DOMAIN job :
    /\ job[j].progress \in 0..100
    /\ job[j].progress = 100 <=> job[j].status = "complete"
    /\ job[j].result # <<>> <=> job[j].status = "complete"
    /\ job[j].error # <<>> <=> job[j].status = "error"

C40_Witness ==
  \E j, k \in DOMAIN job :
    /\ job[j].status = "error" /\ job[j].progress = 99
    /\ job[k].status = "complete"

\* C38: the controller of a progress stream is closed at most once: close
\* is never invoked on a controller that is already closed.
C38_ClosedAtMostOnce ==
  \A c \in DOMAIN streams : streams[c].closeErrors = 0

\* C32: reaching a terminal state does not evict a job: the step that ends
\* a job leaves it in the registry, a finished job keeps its status, result
\* and error for as long as it is there, and a job leaves the registry only
\* in a sweep and only when its age exceeds the window.
C32_OnlyReapEvicts ==
  /\ [][\A j \in jobs \ jobs' :
          Swept /\ now - idTime[j] > MAX_AGE_MS]_vars
  /\ [][\A j \in jobs :
          (job[j].status = "processing" /\ job'[j].status \in TerminalStatus)
          => j \in jobs']_vars
  /\ [][\A j \in jobs :
          job[j].status \in TerminalStatus
          => /\ job'[j].status = job[j].status
             /\ job'[j].result = job[j].result
             /\ job'[j].error = job[j].error]_vars

C32_Witness ==
  \E j \in jobs, k \in DOMAIN job :
    /\ job[j].status = "complete"
    /\ cleanup.sweeps >= 1
    /\ cleanup.last > idTime[j]
    /\ k \notin jobs
    /\ job[k].status = "error"

\* C39: a finalize of a session that lacks chunks fails with IncompleteUpload
\* and changes nothing: the session record, its received set, the stored
\* chunks, the upload directory and the file registry are as before; and a
\* finalize of a session that has every chunk succeeds, so the client can
\* send what is missing and finalize again.
C39_IncompleteFinalizeLeavesSession ==
  [][\A u \in DOMAIN activeUploads :
       (requests' # requests /\ resp'.op = "finalize" /\ resp'.uploadId = u)
       => IF Cardinality(activeUploads[u].receivedChunks)
               # activeUploads[u].totalChunks
          THEN /\ ~resp'.ok
               /\ resp'.error = "IncompleteUpload"
               /\ UNCHANGED <<activeUploads, tempDirs, uploadDir,
                              uploadedFiles, finalized, ended, nextId>>
          ELSE (u \in DOMAIN tempDirs) => resp'.ok]_vars

C39_Witness ==
  /\ resp.op = "finalize"
  /\ ~resp.ok
  /\ resp.error = "IncompleteUpload"
  /\ resp.uploadId \in DOMAIN activeUploads
  /\ activeUploads[resp.uploadId].receivedChunks = {0}
  /\ activeUploads[resp.uploadId].totalChunks = 2
  /\ DOMAIN tempDirs[resp.uploadId] = {ChunkFileName(0)}

\* C35: the one-shot routine and the job routine agree on the lookup and on
\* the display name: for every file id, one finds no upload exactly when
\* the other finds none, and for an upload both find, both register the
\* processed file under the same display name.
C35_SameLookupAndName ==
  \A fileId \in KnownIds :
    /\ ProcessAudioUpload(fileId) = <<>> <=> GetUpload(fileId) = { <<>> }
    /\ \A found \in GetUpload(fileId), preset \in Presets :
         (found # <<>> /\ ProcessAudioUpload(fileId) # <<>>)
         => ProcessAudioOutputName(ProcessAudioUpload(fileId)[1].name, preset)
              = OutputName(found[1].name, preset)

\* the calls of one kind on one session that have returned or thrown
Returned(op, u) ==
  { c \in DOMAIN calls :
      calls[c].op = op /\ calls[c].uploadId = u /\ calls[c].pc = "done" }

\* the payloads whose write to one chunk index of a session has finished
Written(u, i) ==
  { calls[c].data : c \in { k \in DOMAIN calls :
      /\ calls[k].op = "chunk" /\ calls[k].uploadId = u
      /\ calls[k].index = i
      /\ calls[k].pc \in {"written", "done"} /\ calls[k].error = "" } }

\* C33: whatever the interleaving of chunk writes and finalize, a finalize
\* that succeeds returns a file that holds, for every chunk index, the whole
\* payload of one finished write of that index: never a partial chunk and
\* never a missing one.
C33_FinalizeReadsWholeChunks ==
  \A c \in DOMAIN calls :
    (calls[c].op = "finalize" /\ calls[c].pc = "done" /\ calls[c].ok)
    => /\ Len(calls[c].bytes) = calls[c].total
       /\ \A k \in 1..Len(calls[c].bytes) :
            calls[c].bytes[k] \in Written(calls[c].uploadId, k - 1)

\* C34: once every chunk call on a session has returned, its received set
\* is the set of indices written, every chunk file holds the payload of one
\* of the writes of its index, and of the calls that began while the
\* session was incomplete exactly one returned complete = true when the
\* session has every chunk.
C34_ConcurrentChunksKeepBooks ==
  \A u \in DOMAIN activeUploads :
    (\A c \in DOMAIN calls :
        (calls[c].op = "chunk" /\ calls[c].uploadId = u)
        => calls[c].pc = "done")
    => /\ activeUploads[u].receivedChunks
            = { calls[c].index : c \in { k \in Returned("chunk", u) :
                                           calls[k].ok } }
       /\ Has(tempDirs, u)
          => \A i \in activeUploads[u].receivedChunks :
               /\ Has(tempDirs[u], ChunkFileName(i))
               /\ tempDirs[u][ChunkFileName(i)] \in Written(u, i)
       /\ Cardinality(activeUploads[u].receivedChunks)
            = activeUploads[u].totalChunks
          => Cardinality({ c \in Returned("chunk", u) :
                             calls[c].pending /\ calls[c].complete }) = 1

\* C36: at most one finalize of a session ever succeeds, also with several
\* finalize calls in flight on it: a session never yields two stored
\* files, and a finalize that loses fails at the lookup, not while reading
\* chunks that the winner is removing.
C36_OneFinalizeSucceeds ==
  \A u \in DOMAIN activeUploads \cup DOMAIN detached :
    /\ Cardinality({ c \in Returned("finalize", u) : calls[c].ok }) <= 1
    /\ Cardinality({ c \in Returned("finalize", u) :
          Has(uploadDir, <<calls[c].fileId, calls[c].ext>>) }) <= 1
    /\ \A c \in Returned("finalize", u) :
         ~calls[c].ok
         => calls[c].error \in { SessionNotFound, "IncompleteUpload" }
====
